---- MODULE Spec2Model ----
(***************************************************************************)
(* A model of hd-css-to-variable (src/src/index.ts): the CssToVariable     *)
(* class, its per-file scanner/rewriter (parseFile), the default name      *)
(* generator, the usage ledger and the output assembler.                   *)
(*                                                                         *)
(* Text is modelled as sequences of tokens (strings): a value such as      *)
(* "#f00" is <<"#", "f00">>, "url(./a.png)" is <<"url(", "./a", ".png",    *)
(* ")">>.  Hyphenated identifiers are sequences of their hyphen-free       *)
(* segments ("background-image" is <<"background", "image">>), so that     *)
(* joining with "-" is concatenation and two names are equal as strings    *)
(* exactly when they are equal as sequences.  A variable name carries its  *)
(* leading "--" as its first token.                                        *)
(***************************************************************************)
EXTENDS Integers, Sequences, FiniteSets, TLC

\* ------------------------------------------------------------------ bounds
\* the most files file discovery returns
MaxFiles == 2
\* the most declarations in the whole scanned tree
MaxDecls == 2
\* the most output files already present in the target directory
MaxExisting == 2
\* the most declarations of the stylesheet whose names are studied
MaxNameDecls == 3

\* ------------------------------------------------------------ text helpers
\* a value that may be undefined (an option left out, a missing argument)
None == [given |-> FALSE]
Some(x) == [given |-> TRUE, v |-> x]

\* a test that finds no prefix
StartsWithNothing(v, t) == FALSE

\* String.prototype.startsWith, for a one-token prefix
StartsWith(v, t) == Len(v) >= 1 /\ v[1] = t

\* String.prototype.includes, for a one-token needle
Includes(v, t) == \E i \in DOMAIN v : v[i] = t

\* String.prototype.toLowerCase on one token
LowerTok(t) ==
  CASE t = "Transparent" -> "transparent"
    [] t = "TRANSPARENT" -> "transparent"
    [] t = "URL(" -> "url("
    [] t = ".PNG" -> ".png"
    [] OTHER -> t

ToLowerCase(v) == [i \in DOMAIN v |-> LowerTok(v[i])]

\* the decimal text of a counter
NumStr(n) == <<"1", "2", "3", "4", "5", "6", "7", "8", "9">>[n]

\* the tokens of the model that hold a character other than a letter or a
\* digit; every other token is a word of letters and digits
NonWordTokens ==
  {"#", ".", "-", "--", "(", ")", ",", " ", "$", "'", "\"", "/", "url(", "URL(",
   "var(", "./a", "./b", "./c", "./d", ".png", ".PNG", ".svg", ".css", ".scss",
   ".json", ".txt", ".map.json", "data:image/", ";base64,", "QQ==", "Qg==",
   "/proj", ":root", ""}

IsAlnum(t) == t \notin NonWordTokens

\* the `var(${variableName})` template of parseFile
VarRef(name) == <<"var(">> \o name \o <<")">>

\* Map.prototype.set on an insertion-ordered Map, kept as a sequence of entries
MapSet(m, k, v) ==
  IF \E i \in DOMAIN m : m[i].key = k
    THEN [i \in DOMAIN m |-> IF m[i].key = k THEN [key |-> k, val |-> v] ELSE m[i]]
    ELSE Append(m, [key |-> k, val |-> v])

MapHas(m, k) == \E i \in DOMAIN m : m[i].key = k

MapGet(m, k) == m[CHOOSE i \in DOMAIN m : m[i].key = k].val

\* ------------------------------------------------------------ the fixtures
\* the rules a declaration can sit in (postcss nodes: type and selector)
RuleBtn == [type |-> "rule", selector |-> <<".", "btn">>]
RuleDiv == [type |-> "rule", selector |-> <<"div">>]

\* declarations of the scanned stylesheets: property, value, the chain of
\* enclosing nodes from the nearest one up (the root node left out)
PlainDecl ==
  [prop |-> <<"color">>, value |-> <<"#", "f00">>, parents |-> <<RuleBtn>>]
GradientDecl ==
  [prop |-> <<"background">>,
   value |-> <<"linear", "-", "gradient", "(", "to", " ", "right", ",", " ",
               "#", "f00", ",", " ", "#", "0f0", ")">>,
   parents |-> <<RuleBtn>>]
TransparentDecl ==
  [prop |-> <<"color">>, value |-> <<"Transparent">>, parents |-> <<RuleBtn>>]
ImageADecl ==
  [prop |-> <<"background", "image">>,
   value |-> <<"url(", "./a", ".png", ")">>, parents |-> <<RuleBtn>>]
ImageBDecl ==
  [prop |-> <<"background", "image">>,
   value |-> <<"url(", "'", "./b", ".png", "'", ")">>, parents |-> <<RuleBtn>>]
\* an image that is on disk but cannot be read, and one that is not on disk
ImageBrokenDecl ==
  [prop |-> <<"background", "image">>,
   value |-> <<"url(", "./c", ".png", ")">>, parents |-> <<RuleBtn>>]
ImageMissingDecl ==
  [prop |-> <<"background", "image">>,
   value |-> <<"url(", "./d", ".png", ")">>, parents |-> <<RuleBtn>>]
OtherDecl ==
  [prop |-> <<"font", "size">>, value |-> <<"16px">>, parents |-> <<RuleDiv>>]
ScssDefDecl ==
  [prop |-> <<"$", "primary">>, value |-> <<"#", "f00">>, parents |-> <<>>]
SigilDecl ==
  [prop |-> <<"color">>, value |-> <<"$", "primary">>, parents |-> <<RuleBtn>>]

DeclPool ==
  {PlainDecl, GradientDecl, TransparentDecl, ImageADecl, ImageBDecl, OtherDecl,
   ScssDefDecl, SigilDecl}

\* where a stylesheet sits under the scan root, and its dialect
FileKinds ==
  {[dir |-> <<>>, ext |-> ".css"],
   [dir |-> <<"styles">>, ext |-> ".css"],
   [dir |-> <<"styles">>, ext |-> ".scss"]}

\* the image files on disk next to every stylesheet
ImageFiles == {<<"./a", ".png">>, <<"./b", ".png">>, <<"./c", ".png">>}

\* image-to-base64 of an image file's bytes
ImageToBase64(imgPath) ==
  CASE imgPath.base[1] = "./a" -> "QQ=="
    [] imgPath.base[1] = "./b" -> "Qg=="
    [] OTHER -> ""

\* the alias table imported from ./constant (property -> shorter name); the
\* file is not part of the sources at hand: the properties the tests extract
\* (color, background, background-color, background-image) keep their names
NameMap(property) ==
  IF property = <<"font", "size">> THEN Some(<<"fs">>) ELSE None

VARIABLES
  input,              \* the options object handed to the constructor
  options,            \* this.options, as the constructor resolved them
  tree,               \* the stylesheets under the directory, in discovery order
  disk,               \* disk[f]: the declaration values of stylesheet f on disk
  existing,           \* other paths present in the file system before the run
  written,            \* the writes to other paths, in order: [path, content]
  files,              \* extract(): the result of glob (indices into tree)
  processedFiles,     \* extract(): the files parseFile has completed
  extractedVariables, \* this.extractedVariables
  extractedAssets,    \* this.extractedAssets
  variableMap,        \* this.variableMap, in insertion order
  log,                \* what console.log / console.warn printed that matters
  pc,                 \* where extract() stands
  run                 \* which run over the directory this is: the first, or
                      \* the one after it

vars ==
  <<input, options, tree, disk, existing, written, files, processedFiles,
    extractedVariables, extractedAssets, variableMap, log, pc, run>>

\* ------------------------------------------------------------- constructor
DefaultOutputFile == <<"variables", ".css">>
PatternAll == "**/*.{css,scss}"
PatternCss == "**/*.css"

\* `x || d`, where falsy is the falsy value of x's type ('' or false)
OrElse(x, falsy, d) == IF x.given /\ x.v # falsy THEN x.v ELSE d

Constructor(o) ==
  [directory |-> o.directory,
   properties |-> o.properties,
   prefix |-> OrElse(o.prefix, "", ""),
   outputFile |-> OrElse(o.outputFile, <<>>, DefaultOutputFile),
   pattern |-> OrElse(o.pattern, "", PatternAll),
   nameFormatter |-> OrElse(o.nameFormatter, "", "default"),
   exportMap |-> OrElse(o.exportMap, FALSE, FALSE),
   assetsOutput |-> OrElse(o.assetsOutput, FALSE, FALSE),
   splitByFolder |-> OrElse(o.splitByFolder, FALSE, FALSE)]

\* ---------------------------------------------------- defaultNameFormatter
\* path.relative(directory, filePath).split(path.sep)
PathParts(file) == file.dir \o <<file.name>>

\* the first folder under the scan root, in place of the immediate parent
FolderNameTop(file) ==
  LET pathParts == PathParts(file)
  IN IF Len(pathParts) > 1 THEN pathParts[1] ELSE ""

FolderName(file) ==
  LET pathParts == PathParts(file)
  IN IF Len(pathParts) > 1 THEN pathParts[Len(pathParts) - 1] ELSE ""

\* selector.match(/\.(([\w-]+))/): the first class token of a selector
SelectorMatch(selector) ==
  LET hits == {i \in DOMAIN selector :
                 selector[i] = "." /\ i < Len(selector) /\ IsAlnum(selector[i + 1])}
  IN IF hits = {} THEN ""
     ELSE selector[(CHOOSE i \in hits : \A j \in hits : i <= j) + 1]

RECURSIVE ClassName(_)
ClassName(parents) ==
  IF parents = <<>> THEN ""
  ELSE IF parents[1].type = "rule" /\ SelectorMatch(parents[1].selector) # ""
    THEN SelectorMatch(parents[1].selector)
    ELSE ClassName(Tail(parents))

Seg(s) == IF s = "" THEN <<>> ELSE <<s>>

BaseVariableName(opts, property, decl) ==
  LET folderName == IF decl.given THEN FolderName(decl.v.file) ELSE ""
      className == IF decl.given THEN ClassName(decl.v.parents) ELSE ""
      rewriteProperty == OrElse(NameMap(property), <<>>, property)
  IN <<"--">> \o Seg(opts.prefix) \o Seg(folderName) \o Seg(className)
       \o rewriteProperty

\* a generator that finds no name taken
NameTakenNowhere(ev, name) == FALSE

\* this.extractedVariables.some(v => v.variableName === finalVariableName)
NameTaken(ev, name) == \E i \in DOMAIN ev : ev[i].variableName = name

RECURSIVE FinalVariableName(_, _, _, _)
FinalVariableName(ev, base, final, counter) ==
  IF NameTaken(ev, final)
    THEN FinalVariableName(ev, base, base \o <<NumStr(counter)>>, counter + 1)
    ELSE final

DefaultNameFormatter(ev, opts, property, value, decl) ==
  LET baseVariableName == BaseVariableName(opts, property, decl)
  IN FinalVariableName(ev, baseVariableName, baseVariableName, 1)

\* the nameFormatter of the README's example,
\* (property, value) => `custom-${property}-${value}`
CustomNameFormatter(property, value) == <<"custom">> \o property \o value

\* this.options.nameFormatter: the function handed in, or the default one
NameFormatter(ev, opts, property, value, decl) ==
  IF opts.nameFormatter = "default"
    THEN DefaultNameFormatter(ev, opts, property, value, decl)
    ELSE CustomNameFormatter(property, value)

\* generateVariableName: the formatter called without a declaration
GenerateVariableName(ev, opts, property, value) ==
  NameFormatter(ev, opts, property, value, None)

\* ------------------------------------------------------ updateVariableUsage
UsageKey(variable) == <<variable.property, variable.value>>

\* a ledger whose report takes the name of the latest record
UpdateVariableUsageLatestName(vm, variable) ==
  LET key == UsageKey(variable)
      old == IF MapHas(vm, key) THEN MapGet(vm, key)
             ELSE [variableName |-> variable.variableName,
                   value |-> variable.value, usageCount |-> 0, usages |-> <<>>]
  IN MapSet(vm, key,
            [old EXCEPT !.variableName = variable.variableName,
                        !.usageCount = @ + 1,
                        !.usages = Append(@, [filePath |-> variable.filePath,
                                              line |-> variable.line,
                                              property |-> variable.property,
                                              value |-> variable.value])])

UpdateVariableUsage(vm, variable) ==
  LET key == UsageKey(variable)
      vm1 == IF MapHas(vm, key) THEN vm
             ELSE MapSet(vm, key, [variableName |-> variable.variableName,
                                   value |-> variable.value,
                                   usageCount |-> 0,
                                   usages |-> <<>>])
      report == MapGet(vm1, key)
  IN MapSet(vm1, key,
            [report EXCEPT !.usageCount = @ + 1,
                           !.usages = Append(@, [filePath |-> variable.filePath,
                                                 line |-> variable.line,
                                                 property |-> variable.property,
                                                 value |-> variable.value])])

\* ----------------------------------------------------------------parseFile
ImageExts == {".png", ".jpg", ".jpeg", ".gif", ".svg", ".webp"}
Quotes == {"'", "\""}

\* value.match(/url\(['"]?([^'")\s]+\.(?:png|jpg|jpeg|gif|svg|webp))['"]?\)/i):
\* the positions where the pattern matches, as <<start of the path, end>>
ImageMatches(v) ==
  {m \in (DOMAIN v) \X (DOMAIN v) :
     LET j == m[1]
         k == m[2]
     IN /\ k = j + 2 \/ (k = j + 3 /\ v[k - 1] \in Quotes)
        /\ v[k] = ")"
        /\ LowerTok(v[j + 1]) \in ImageExts
        /\ v[j] \notin Quotes \cup {")", " "}
        /\ \/ j > 1 /\ LowerTok(v[j - 1]) = "url("
           \/ j > 2 /\ v[j - 1] \in Quotes /\ LowerTok(v[j - 2]) = "url("}

IsImageUrl(v) ==
  IF ImageMatches(v) = {} THEN None
  ELSE LET m == CHOOSE x \in ImageMatches(v) :
                  \A y \in ImageMatches(v) : x[1] <= y[1]
       IN Some(<<v[m[1]], v[m[1] + 1]>>)

\* path.resolve(path.dirname(file), rel)
ResolveImage(file, rel) == [dir |-> file.dir, base |-> rel]

\* fs.existsSync(imgPath)
ImageExists(imgPath) == imgPath.base \in ImageFiles

\* image files imageToBase64 cannot read throw
ImageUnreadable(imgPath) == imgPath.base[1] = "./c"

\* path.extname(imgPath).slice(1)
ImageType(imgPath) ==
  CASE LowerTok(imgPath.base[2]) = ".png" -> "png"
    [] imgPath.base[2] = ".svg" -> "svg"
    [] OTHER -> "img"

Base64Value(imgPath) ==
  <<"url(", "data:image/", ImageType(imgPath), ";base64,",
    ImageToBase64(imgPath), ")">>

NewVariable(property, value, variableName, f, line) ==
  [property |-> property, value |-> value, variableName |-> variableName,
   filePath |-> f, line |-> line]

DeclCtx(file, d) == Some([file |-> file, parents |-> d.parents])

\* the first walkDecls of parseFile: the $-definitions of a .scss file
RECURSIVE FirstPass(_, _, _, _, _)
FirstPass(opts, file, f, i, ev) ==
  IF i > Len(file.decls) THEN ev
  ELSE LET d == file.decls[i]
       IN IF file.ext = ".scss" /\ StartsWith(d.prop, "$")
            THEN FirstPass(opts, file, f, i + 1,
                   Append(ev, NewVariable(<<"color">>, d.value,
                     GenerateVariableName(ev, opts, <<"color">>, d.value), f, i)))
            ELSE FirstPass(opts, file, f, i + 1, ev)

\* the transparent test of the declaration loop
IsTransparent(value) == ToLowerCase(value) = <<"transparent">>

\* what the declaration loop does once an image is encoded
OnImage(opts, file, f, i, st, imgPath) ==
  LET d == file.decls[i]
      base64Value == Base64Value(imgPath)
      variableName ==
        NameFormatter(st.ev, opts, d.prop, base64Value, DeclCtx(file, d))
      variable == NewVariable(d.prop, base64Value, variableName, f, i)
  IN [st EXCEPT !.ea = Append(@, variable),
                !.vm = UpdateVariableUsage(@, variable),
                !.count = @ + 1]

\* what the declaration loop does to any other value
OnPlain(opts, file, f, i, st) ==
  LET d == file.decls[i]
      variableName ==
        NameFormatter(st.ev, opts, d.prop, st.root[i], DeclCtx(file, d))
      variable == NewVariable(d.prop, st.root[i], variableName, f, i)
  IN [st EXCEPT !.ev = Append(@, variable),
                !.vm = UpdateVariableUsage(@, variable),
                !.root[i] = VarRef(variableName),
                !.count = @ + 1]

\* the $ branch leaving parseFile with `return`
OnSigilReturn(opts, file, f, i, st) == [st EXCEPT !.returned = TRUE]

\* what the declaration loop does to a value holding the $ sigil: `continue`
OnSigil(opts, file, f, i, st) == st

\* a transparent value handled like any other value
OnTransparentAsPlain(opts, file, f, i, st) == OnPlain(opts, file, f, i, st)

\* what the declaration loop does to a transparent value: `return`, which
\* leaves parseFile
OnTransparent(opts, file, f, i, st) == [st EXCEPT !.returned = TRUE]

\* the `for (const decl of declarations)` loop of parseFile, from declaration i
RECURSIVE SecondPass(_, _, _, _, _)
SecondPass(opts, file, f, i, st) ==
  IF i > Len(file.decls) \/ st.returned THEN st
  ELSE
    LET d == file.decls[i]
        value == st.root[i]
        isImageUrl == IsImageUrl(value)
        imgPath == ResolveImage(file, isImageUrl.v)
    IN IF ~(/\ d.prop \in opts.properties
            /\ ~StartsWith(value, "var(")
            /\ ~StartsWith(value, "--"))
         THEN SecondPass(opts, file, f, i + 1, st)
       ELSE IF Includes(value, "$")
         THEN SecondPass(opts, file, f, i + 1, OnSigil(opts, file, f, i, st))
       ELSE IF isImageUrl.given
         THEN IF ~ImageExists(imgPath)
                THEN SecondPass(opts, file, f, i + 1, st)
              ELSE IF ImageUnreadable(imgPath)
                THEN SecondPass(opts, file, f, i + 1,
                       [st EXCEPT !.log = Append(@, [msg |-> "image-error",
                                                     arg |-> value])])
              ELSE SecondPass(opts, file, f, i + 1,
                              OnImage(opts, file, f, i, st, imgPath))
       ELSE IF IsTransparent(value)
         THEN OnTransparent(opts, file, f, i, st)
       ELSE SecondPass(opts, file, f, i + 1, OnPlain(opts, file, f, i, st))

\* parseFile up to the point where the document is printed
Processed(opts, file, f, content, ev, ea, vm, lg) ==
  SecondPass(opts, file, f, 1,
             [ev |-> FirstPass(opts, file, f, 1, ev), ea |-> ea, vm |-> vm,
              root |-> content, log |-> lg, returned |-> FALSE, count |-> 0])

\* ------------------------------------------------------ generateVariablesFile
\* path.dirname(path.relative(directory, filePath)) of a recorded variable;
\* a filePath is kept as the index of its stylesheet in tree
FolderPath(t, variable) == t[variable.filePath].dir

\* the variablesByFolder Map: folder -> the indices of its variables
RECURSIVE VariablesByFolder(_, _, _, _)
VariablesByFolder(t, ev, i, m) ==
  IF i > Len(ev) THEN m
  ELSE LET folderPath == FolderPath(t, ev[i])
           m1 == IF MapHas(m, folderPath) THEN m ELSE MapSet(m, folderPath, <<>>)
       IN VariablesByFolder(t, ev, i + 1,
            MapSet(m1, folderPath, Append(MapGet(m1, folderPath), ev[i])))

\* the uniqueVariables Map of one list: variableName -> value
RECURSIVE UniqueVariables(_, _, _)
UniqueVariables(variables, i, m) ==
  IF i > Len(variables) THEN m
  ELSE UniqueVariables(variables, i + 1,
         MapSet(m, variables[i].variableName, variables[i].value))

DefLines(unique) ==
  [i \in DOMAIN unique |->
     [kind |-> "def", name |-> unique[i].key, value |-> unique[i].val]]

\* `folder === '.' ? '根目录' : folder`
FolderLabel(folderPath) == IF folderPath = <<>> THEN <<"root-dir">> ELSE folderPath

CommentLine(text) == [kind |-> "comment", name |-> text, value |-> <<>>]

RECURSIVE FolderSections(_, _)
FolderSections(byFolder, i) ==
  IF i > Len(byFolder) THEN <<>>
  ELSE <<CommentLine(FolderLabel(byFolder[i].key))>>
         \o DefLines(UniqueVariables(byFolder[i].val, 1, <<>>))
         \o FolderSections(byFolder, i + 1)

\* the lines between ":root {" and "}"
VariablesContent(t, ev) == FolderSections(VariablesByFolder(t, ev, 1, <<>>), 1)

\* path.join(directory, name)
PathJoin(directory, name) == directory \o <<"/">> \o name

ExtTokens == {".css", ".scss", ".json", ".txt"}

\* path.basename(p)
Basename(p) ==
  LET slashes == {i \in DOMAIN p : p[i] = "/"}
  IN IF slashes = {} THEN p
     ELSE SubSeq(p, (CHOOSE i \in slashes : \A j \in slashes : j <= i) + 1, Len(p))

\* path.extname(p): the last dot of the basename on, unless it starts it
Extname(p) ==
  LET b == Basename(p)
  IN IF Len(b) > 1 /\ b[Len(b)] \in ExtTokens THEN <<b[Len(b)]>> ELSE <<>>

\* s.slice(0, -n): slice(0, -0) is slice(0, 0), the empty string
SliceOff(p, n) == IF n = 0 THEN <<>> ELSE SubSeq(p, 1, Len(p) - n)

\* fs.existsSync on a path that is not a scanned stylesheet
ExistsSync(ex, wr, p) == p \in ex \/ \E i \in DOMAIN wr : wr[i].path = p

RECURSIVE FreePath(_, _, _, _, _, _)
FreePath(ex, wr, base, ext, outputFilePath, counter) ==
  IF ExistsSync(ex, wr, outputFilePath)
    THEN FreePath(ex, wr, base, ext, base \o <<"-", NumStr(counter)>> \o ext,
                  counter + 1)
    ELSE outputFilePath

\* the path generateVariablesFile writes the variable sheet to
OutputFilePath(opts, ex, wr) ==
  LET outputFilePath == PathJoin(opts.directory, opts.outputFile)
      ext == Extname(outputFilePath)
      base == SliceOff(outputFilePath, Len(ext))
  IN FreePath(ex, wr, base, ext, outputFilePath, 1)

\* outputFilePath.replace(/.css$/, '.map.json')
MapFilePath(outputFilePath) ==
  IF outputFilePath # <<>> /\ outputFilePath[Len(outputFilePath)] = ".css"
    THEN SubSeq(outputFilePath, 1, Len(outputFilePath) - 1) \o <<".map.json">>
    ELSE outputFilePath

\* JSON.stringify(Object.fromEntries(this.variableMap))
MapContent(vm) == [kind |-> "json", entries |-> vm]

SheetFile(lines) == [kind |-> "css", entries |-> lines]

\* --------------------------------------------------------- generateAssetsFile
AssetsContent(ea) ==
  <<CommentLine(<<"assets">>)>> \o DefLines(UniqueVariables(ea, 1, <<>>))

AssetsFilePath(opts) == PathJoin(opts.directory, <<"assets", ".css">>)

\* ------------------------------------------------------------------ actions
\* glob(pattern, {cwd: directory}): the stylesheets the pattern matches
Matches(pattern, file) ==
  \/ pattern = PatternAll /\ file.ext \in {".css", ".scss"}
  \/ pattern = PatternCss /\ file.ext = ".css"

RECURSIVE GlobFrom(_, _, _)
GlobFrom(pattern, t, i) ==
  IF i > Len(t) THEN <<>>
  ELSE (IF Matches(pattern, t[i]) THEN <<i>> ELSE <<>>) \o GlobFrom(pattern, t, i + 1)

\* extract(): file discovery
Glob ==
  /\ pc = "start"
  /\ files' = GlobFrom(options.pattern, tree, 1)
  /\ pc' = "files"
  /\ UNCHANGED <<input, options, tree, disk, existing, written, processedFiles,
                 extractedVariables, extractedAssets, variableMap, log, run>>

\* extract(): parseFile on the next file, running to its end
ParseFile ==
  /\ pc = "files"
  /\ processedFiles < Len(files)
  /\ LET f == files[processedFiles + 1]
     IN \E st \in {Processed(options, tree[f], f, disk[f], extractedVariables,
                             extractedAssets, variableMap, log)} :
          /\ extractedVariables' = st.ev
          /\ extractedAssets' = st.ea
          /\ variableMap' = st.vm
          /\ log' = st.log
          /\ disk' = IF st.returned THEN disk ELSE [disk EXCEPT ![f] = st.root]
  /\ processedFiles' = processedFiles + 1
  /\ UNCHANGED <<input, options, tree, existing, written, files, pc, run>>

\* the files processed side by side (Promise.all over the files): when one
\* fails, the files after it have been rewritten all the same
ParseFileFailParallel ==
  /\ pc = "files"
  /\ processedFiles < Len(files)
  /\ disk' = [f \in DOMAIN disk |->
               IF \E j \in DOMAIN files : j > processedFiles + 1 /\ files[j] = f
                 THEN Processed(options, tree[f], f, disk[f], extractedVariables,
                                extractedAssets, variableMap, log).root
                 ELSE disk[f]]
  /\ pc' = "rejected"
  /\ UNCHANGED <<input, options, tree, existing, written, files, processedFiles,
                 extractedVariables, extractedAssets, variableMap, log, run>>

\* extract(): parseFile on the next file throws while reading or parsing it
\* (nothing is touched), or while printing or writing it (the collections
\* already hold its variables; a failed write may leave the file truncated)
ParseFileFail ==
  /\ pc = "files"
  /\ processedFiles < Len(files)
  /\ LET f == files[processedFiles + 1]
     IN \E stage \in {"read", "parse", "print", "write"} :
          IF stage \in {"read", "parse"}
            THEN UNCHANGED <<disk, extractedVariables, extractedAssets,
                             variableMap, log>>
            ELSE \E st \in {Processed(options, tree[f], f, disk[f],
                                      extractedVariables, extractedAssets,
                                      variableMap, log)} :
                   /\ ~st.returned
                   /\ extractedVariables' = st.ev
                   /\ extractedAssets' = st.ea
                   /\ variableMap' = st.vm
                   /\ log' = st.log
                   /\ disk' \in IF stage = "write"
                                  THEN {disk, [disk EXCEPT ![f] = <<>>]}
                                  ELSE {disk}
  /\ pc' = "rejected"
  /\ UNCHANGED <<input, options, tree, existing, written, files, processedFiles, run>>

\* generateVariablesFile without its early return: a sheet is written whatever
\* the collection holds
GenerateVariablesFileUnguarded ==
  /\ pc = "files"
  /\ processedFiles = Len(files)
  /\ written' = Append(written,
                  [path |-> OutputFilePath(options, existing, written),
                   content |-> SheetFile(VariablesContent(tree,
                                           extractedVariables))])
  /\ pc' = IF options.assetsOutput THEN "assets" ELSE "done"
  /\ UNCHANGED <<input, options, tree, disk, existing, files, processedFiles,
                 extractedVariables, extractedAssets, variableMap, log, run>>

\* extract(): generateVariablesFile
GenerateVariablesFile ==
  /\ pc = "files"
  /\ processedFiles = Len(files)
  /\ IF Len(extractedVariables) = 0
       THEN /\ log' = Append(log, [msg |-> "no-variables", arg |-> <<>>])
            /\ UNCHANGED written
       ELSE LET outputFilePath == OutputFilePath(options, existing, written)
                sheet == [path |-> outputFilePath,
                          content |-> SheetFile(VariablesContent(tree,
                                                  extractedVariables))]
                map == [path |-> MapFilePath(outputFilePath),
                        content |-> MapContent(variableMap)]
            IN /\ written' = IF options.exportMap
                               THEN written \o <<sheet, map>>
                               ELSE Append(written, sheet)
               /\ log' = IF outputFilePath
                              # PathJoin(options.directory, options.outputFile)
                           THEN Append(log, [msg |-> "renamed",
                                             arg |-> Basename(outputFilePath)])
                           ELSE log
  /\ pc' = IF options.assetsOutput THEN "assets" ELSE "done"
  /\ UNCHANGED <<input, options, tree, disk, existing, files, processedFiles,
                 extractedVariables, extractedAssets, variableMap, run>>

\* extract(): generateAssetsFile, called when assetsOutput is set
GenerateAssetsFile ==
  /\ pc = "assets"
  /\ written' = IF ~options.assetsOutput \/ Len(extractedAssets) = 0
                  THEN written
                  ELSE Append(written,
                         [path |-> AssetsFilePath(options),
                          content |-> SheetFile(AssetsContent(extractedAssets))])
  /\ pc' = "done"
  /\ UNCHANGED <<input, options, tree, disk, existing, files, processedFiles,
                 extractedVariables, extractedAssets, variableMap, log, run>>

Next ==
  \/ Glob
  \/ ParseFile
  \/ ParseFileFail
  \/ GenerateVariablesFile
  \/ GenerateAssetsFile

\* --------------------------------------------------------------- the inputs
Directory == <<"/proj">>

SeqsUpTo(S, n) == UNION {[1..k -> S] : k \in 0..n}

FileAt(kind, decls, idx) ==
  [dir |-> kind.dir, ext |-> kind.ext, name |-> NumStr(idx), decls |-> decls]

\* the trees of at most n more stylesheets, none empty, holding at most d
\* declarations of pool in all
RECURSIVE Trees(_, _, _, _)
Trees(pool, n, d, idx) ==
  IF n = 0 THEN {<<>>}
  ELSE {<<>>} \cup
       UNION {UNION {{<<FileAt(kind, decls, idx)>> \o rest :
                        rest \in Trees(pool, n - 1, d - Len(decls), idx + 1)} :
                     kind \in FileKinds} :
              decls \in SeqsUpTo(pool, d) \ {<<>>}}

\* the state a new CssToVariable(o) is in, over a file system
Constructed(o, t, ex) ==
  /\ input = o
  /\ options = Constructor(o)
  /\ tree = t
  /\ disk = [f \in DOMAIN t |-> [i \in DOMAIN t[f].decls |-> t[f].decls[i].value]]
  /\ existing = ex
  /\ written = <<>>
  /\ files = <<>>
  /\ processedFiles = 0
  /\ extractedVariables = <<>>
  /\ extractedAssets = <<>>
  /\ variableMap = <<>>
  /\ log = <<>>
  /\ pc = "start"
  /\ run = 1

AllowList == {<<"color">>, <<"background">>, <<"background", "image">>}

\* the options of the tests, with asset output on
TestOptions ==
  [directory |-> Directory, properties |-> AllowList, prefix |-> Some("theme"),
   outputFile |-> None, pattern |-> None, nameFormatter |-> None,
   exportMap |-> None, assetsOutput |-> Some(TRUE), splitByFolder |-> None]

\* every tree within the bounds, under the options of the tests
Init ==
  \E t \in Trees(DeclPool, MaxFiles, MaxDecls, 1) : Constructed(TestOptions, t, {})

Spec == Init /\ [][Next]_vars

\* ------------------------------------------------------------ a second run
\* a generated sheet read back as a stylesheet of the directory: one :root
\* rule whose declarations are the definitions
RuleRoot == [type |-> "rule", selector |-> <<":root">>]

SheetDecls(lines) ==
  LET defs == SelectSeq(lines, LAMBDA l : l.kind = "def")
  IN [n \in DOMAIN defs |->
        [prop |-> defs[n].name, value |-> defs[n].value, parents |-> <<RuleRoot>>]]

\* the sheets of a run that lie in the directory, as stylesheets
SheetsWritten(opts, wr) ==
  LET sheets == SelectSeq(wr, LAMBDA w :
                  /\ w.content.kind = "css"
                  /\ w.path = PathJoin(opts.directory, Basename(w.path)))
  IN [n \in DOMAIN sheets |->
        [dir |-> <<>>, ext |-> ".css", name |-> Basename(sheets[n].path)[1],
         decls |-> SheetDecls(sheets[n].content.entries)]]

\* the stylesheets of the directory as a completed run left them
TreeAfter(opts, t, dk, wr) ==
  [f \in DOMAIN t |->
     [t[f] EXCEPT !.decls = [i \in DOMAIN t[f].decls |->
                               [t[f].decls[i] EXCEPT !.value = dk[f][i]]]]]
    \o SheetsWritten(opts, wr)

\* extract() once more over the directory as the first run left it, with the
\* same options: on a new CssToVariable, or on the same one
ExtractAgain ==
  /\ pc = "done"
  /\ run = 1
  /\ \E fresh \in BOOLEAN :
       /\ extractedVariables' = IF fresh THEN <<>> ELSE extractedVariables
       /\ extractedAssets' = IF fresh THEN <<>> ELSE extractedAssets
       /\ variableMap' = IF fresh THEN <<>> ELSE variableMap
  /\ tree' = TreeAfter(options, tree, disk, written)
  /\ disk' = [f \in DOMAIN tree' |->
               [i \in DOMAIN tree'[f].decls |-> tree'[f].decls[i].value]]
  /\ existing' = existing \cup {written[n].path : n \in DOMAIN written}
  /\ written' = <<>>
  /\ files' = <<>>
  /\ processedFiles' = 0
  /\ pc' = "start"
  /\ run' = 2
  /\ UNCHANGED <<input, options, log>>

NextAgain ==
  \/ Glob
  \/ ParseFile
  \/ ParseFileFail
  \/ GenerateVariablesFile
  \/ GenerateAssetsFile
  \/ ExtractAgain

SpecAgain == Init /\ [][NextAgain]_vars

\* ------------------------------------------------------- trees of image urls
ImagePool == {PlainDecl, ImageADecl, ImageBrokenDecl, ImageMissingDecl}

InitImages ==
  \E t \in Trees(ImagePool, MaxFiles, MaxDecls, 1) : Constructed(TestOptions, t, {})

SpecImages == InitImages /\ [][Next]_vars

\* ------------------------------------------------- one stylesheet, for names
\* rules without a class, an at-rule, and a rule with two classes
RuleSpan == [type |-> "rule", selector |-> <<"span">>]
AtRuleMedia == [type |-> "atrule", selector |-> <<>>]
RuleCard == [type |-> "rule", selector |-> <<".", "card", " ", ".", "btn">>]

\* `.card .btn { @media screen { span { color: #f00 } } }`
NestedDecl ==
  [prop |-> <<"color">>, value |-> <<"#", "f00">>,
   parents |-> <<RuleSpan, AtRuleMedia, RuleCard>>]
\* `div { color: #00f }`
BareColorDecl ==
  [prop |-> <<"color">>, value |-> <<"#", "00f">>, parents |-> <<RuleDiv>>]

NamePool == {PlainDecl, NestedDecl, BareColorDecl, OtherDecl, ScssDefDecl}

NameFileKinds ==
  {[dir |-> <<>>, ext |-> ".scss"],
   [dir |-> <<"styles">>, ext |-> ".css"],
   [dir |-> <<"pages", "home">>, ext |-> ".scss"]}

NameOptions(prefix) ==
  [TestOptions EXCEPT !.prefix = prefix,
                      !.properties = AllowList \cup {<<"font", "size">>}]

InitNames ==
  \E prefix \in {None, Some("theme")}, kind \in NameFileKinds :
    \E decls \in SeqsUpTo(NamePool, MaxNameDecls) \ {<<>>} :
      Constructed(NameOptions(prefix), <<FileAt(kind, decls, 1)>>, {})

SpecNames == InitNames /\ [][Next]_vars

\* ---------------------------------------------- runs with a custom generator
CustomPool == {PlainDecl, BareColorDecl, ImageADecl}

CustomOptions == [TestOptions EXCEPT !.nameFormatter = Some("custom")]

InitCustom ==
  \E t \in Trees(CustomPool, MaxFiles, MaxDecls, 1) :
    Constructed(CustomOptions, t, {})

SpecCustom == InitCustom /\ [][Next]_vars

\* ------------------------------------------------- the sweep over the options
\* a stylesheet under styles/ as in the tests, with an image declaration
\* beside its colour
TestTree ==
  <<FileAt([dir |-> <<"styles">>, ext |-> ".css"], <<PlainDecl, ImageADecl>>, 1)>>

\* a tree holding nothing to extract
BareTree ==
  <<FileAt([dir |-> <<>>, ext |-> ".scss"], <<OtherDecl>>, 1)>>

OptionTrees == {TestTree, BareTree}

OutputFiles == {<<"variables">>, <<"theme", ".css">>}

InputOptions ==
  [directory : {Directory},
   properties : {AllowList},
   prefix : {None, Some(""), Some("theme")},
   outputFile : {None} \cup {Some(x) : x \in OutputFiles},
   pattern : {None, Some(PatternCss)},
   nameFormatter : {None},
   exportMap : {None, Some(TRUE)},
   assetsOutput : {None, Some(TRUE)},
   splitByFolder : {None, Some(TRUE)}]

\* name, name-1, name-2, ...: the paths a run may find taken, for an output
\* file name with an extension (in the directory) or without one
NumberedPaths(outputFile) ==
  LET p == PathJoin(Directory, outputFile)
  IN IF p[Len(p)] \in ExtTokens
       THEN {p} \cup {SubSeq(p, 1, Len(p) - 1) \o <<"-", NumStr(k), p[Len(p)]>> :
                        k \in 1..MaxExisting}
       ELSE {p} \cup {p \o <<"-", NumStr(k)>> : k \in 1..MaxExisting}
                \cup {<<"-", NumStr(k)>> : k \in 1..MaxExisting}

InitOptions ==
  \E o \in InputOptions, t \in OptionTrees :
    \E ex \in SUBSET NumberedPaths(Constructor(o).outputFile) :
      /\ Cardinality(ex) <= MaxExisting
      /\ Constructed(o, t, ex)

SpecOptions == InitOptions /\ [][Next]_vars

\* ------------------------------------------------- the earlier name generator
\* value.replace(/^#/, '').replace(/[^a-zA-Z0-9]/g, ''), the value token of
\* the name generator as the README documents it; a token sequence stands
\* for the concatenation of its tokens
CleanValue(value) ==
  SelectSeq(IF StartsWith(value, "#") THEN Tail(value) ELSE value, IsAlnum)

\* value.match(/(linear|radial|conic)-gradient\s*\((.*?)\)/): the position of
\* the gradient type, or 0
GradientMatch(value) ==
  LET hits == {i \in DOMAIN value :
                 /\ value[i] \in {"linear", "radial", "conic"}
                 /\ i + 3 <= Len(value)
                 /\ value[i + 1] = "-" /\ value[i + 2] = "gradient"
                 /\ value[i + 3] = "("
                 /\ \E j \in DOMAIN value : j > i + 3 /\ value[j] = ")"}
  IN IF hits = {} THEN 0 ELSE CHOOSE i \in hits : \A j \in hits : i <= j

\* the hex colours of a gradient's arguments, their "#" stripped
RECURSIVE GradientColors(_, _)
GradientColors(value, i) ==
  IF i >= Len(value) \/ value[i] = ")" THEN <<>>
  ELSE (IF value[i] = "#" THEN <<value[i + 1]>> ELSE <<>>)
         \o GradientColors(value, i + 1)

ValueToken(value) ==
  IF Includes(value, "gradient") /\ GradientMatch(value) > 0
    THEN <<value[GradientMatch(value)]>>
           \o GradientColors(value, GradientMatch(value) + 4)
    ELSE CleanValue(value)

\* ---------------------------------------------------------------- vocabulary
Decl(f, i) == tree[f].decls[i]

Discovered == {files[j] : j \in DOMAIN files}

Sites == UNION {{<<f, i>> : i \in DOMAIN tree[f].decls} : f \in DOMAIN tree}

AllowListed(f, i) == Decl(f, i).prop \in options.properties

TransparentSite(f, i) == AllowListed(f, i) /\ IsTransparent(Decl(f, i).value)

ImageSite(f, i) ==
  /\ AllowListed(f, i)
  /\ ~StartsWith(Decl(f, i).value, "var(")
  /\ ~StartsWith(Decl(f, i).value, "--")
  /\ ~Includes(Decl(f, i).value, "$")
  /\ IsImageUrl(Decl(f, i).value).given

PlainSite(f, i) ==
  /\ AllowListed(f, i)
  /\ ~StartsWith(Decl(f, i).value, "var(")
  /\ ~StartsWith(Decl(f, i).value, "--")
  /\ ~Includes(Decl(f, i).value, "$")
  /\ ~IsImageUrl(Decl(f, i).value).given
  /\ ~IsTransparent(Decl(f, i).value)

\* the entries of a collection recorded for the declaration at line i of f
\* by the declaration loop (the $-definitions are recorded as color)
EntriesAt(coll, f, i) ==
  {k \in DOMAIN coll : /\ coll[k].filePath = f
                       /\ coll[k].line = i
                       /\ coll[k].property = Decl(f, i).prop}

UsagesAt(f, i) ==
  UNION {{<<r, u>> : u \in {x \in DOMAIN variableMap[r].val.usages :
                              /\ variableMap[r].val.usages[x].filePath = f
                              /\ variableMap[r].val.usages[x].line = i}} :
         r \in DOMAIN variableMap}

AllEntries == extractedVariables \o extractedAssets

SheetWritten == pc \in {"assets", "done"} /\ Len(extractedVariables) > 0

\* the variable sheet is the first file generateVariablesFile writes
SheetPath == written[1].path
SheetLines == written[1].content.entries

Defs(lines, name) == {n \in DOMAIN lines : lines[n].kind = "def" /\ lines[n].name = name}

CssFiles == {n \in DOMAIN written : written[n].content.kind = "css"}

Embeds(name, token) ==
  \E n \in DOMAIN name :
    n + Len(token) - 1 <= Len(name) /\ SubSeq(name, n, n + Len(token) - 1) = token

\* -------------------------------------------------------------------- claims

\* C1: once extract() has completed, every allow-listed declaration with a
\* plain literal value in a discovered file reads var(N) on disk, N being the
\* name recorded for it, and the variable sheet defines N exactly once --
\* wherever the declaration sits, also after a transparent declaration.
C1_PlainRewrittenDefinedOnce ==
  pc = "done" =>
    \A s \in Sites :
      (s[1] \in Discovered /\ PlainSite(s[1], s[2])) =>
        \E k \in EntriesAt(extractedVariables, s[1], s[2]) :
          /\ disk[s[1]][s[2]] = VarRef(extractedVariables[k].variableName)
          /\ Cardinality(Defs(SheetLines, extractedVariables[k].variableName)) = 1

\* C2: any two variables recorded in one run, plain or asset, whose
\* (property, value) keys differ have different names.
C2_DistinctKeysDistinctNames ==
  \A a, b \in DOMAIN AllEntries :
    UsageKey(AllEntries[a]) # UsageKey(AllEntries[b]) =>
      AllEntries[a].variableName # AllEntries[b].variableName

\* the plain entries recorded for declarations in the context of entry a:
\* same property, same value, same folder, same class
SameContext(a) ==
  {b \in DOMAIN extractedVariables :
     LET x == extractedVariables[a]
         y == extractedVariables[b]
     IN /\ y.property = x.property
        /\ y.value = x.value
        /\ y.property = Decl(y.filePath, y.line).prop
        /\ FolderName(tree[y.filePath]) = FolderName(tree[x.filePath])
        /\ ClassName(Decl(y.filePath, y.line).parents)
             = ClassName(Decl(x.filePath, x.line).parents)}

\* C3: two declarations processed in one run that share property, raw value,
\* folder and class get the same name, and the ledger holds one report for
\* them whose usageCount is the number of such declarations.
C3_SameValueSameName ==
  \A a \in DOMAIN extractedVariables :
    \A b \in SameContext(a) \ {a} :
      (a \in SameContext(a)) =>
        /\ extractedVariables[a].variableName = extractedVariables[b].variableName
        /\ \E r \in DOMAIN variableMap :
             /\ variableMap[r].key = UsageKey(extractedVariables[a])
             /\ variableMap[r].val.usageCount = Cardinality(SameContext(a))
             /\ \A q \in DOMAIN variableMap :
                  variableMap[q].key = variableMap[r].key => q = r

\* C4: an allow-listed declaration whose value is transparent, in any case of
\* letters, is never rewritten in its file, is recorded in neither collection
\* nor in the ledger, and no definition of a written sheet comes from it.
C4_TransparentUntouched ==
  /\ \A s \in Sites :
       TransparentSite(s[1], s[2]) =>
         /\ s[2] \in DOMAIN disk[s[1]]
         /\ disk[s[1]][s[2]] = Decl(s[1], s[2]).value
         /\ EntriesAt(extractedVariables, s[1], s[2]) = {}
         /\ EntriesAt(extractedAssets, s[1], s[2]) = {}
         /\ UsagesAt(s[1], s[2]) = {}
  /\ \A n \in CssFiles :
       \A l \in DOMAIN written[n].content.entries :
         LET line == written[n].content.entries[l]
         IN line.kind = "def" =>
              \E k \in DOMAIN AllEntries :
                /\ AllEntries[k].variableName = line.name
                /\ AllEntries[k].value = line.value
                /\ ~TransparentSite(AllEntries[k].filePath, AllEntries[k].line)

\* a run has completed and written its sheet over a tree in which a
\* transparent declaration of an allow-listed property was met
C4_Witness ==
  /\ pc = "done"
  /\ SheetWritten
  /\ \E s \in Sites : s[1] \in Discovered /\ TransparentSite(s[1], s[2])

\* C5: when plain variables were extracted, the variable sheet goes to the
\* first path of name.ext, name-1.ext, name-2.ext, ... in the target directory
\* that did not exist, for an output file name with or without an extension;
\* no file that existed is overwritten by it, and a substituted name is
\* reported.
NumberedName(outputFile, k) ==
  IF k = 0 THEN outputFile
  ELSE IF Len(outputFile) > 1 /\ outputFile[Len(outputFile)] \in ExtTokens
    THEN SubSeq(outputFile, 1, Len(outputFile) - 1)
           \o <<"-", NumStr(k), outputFile[Len(outputFile)]>>
    ELSE outputFile \o <<"-", NumStr(k)>>

C5_FirstFreeNumberedPath ==
  SheetWritten =>
    \E k \in 0..Cardinality(existing) :
      /\ SheetPath = PathJoin(options.directory, NumberedName(options.outputFile, k))
      /\ SheetPath \notin existing
      /\ \A j \in 0..(k - 1) :
           PathJoin(options.directory, NumberedName(options.outputFile, j))
             \in existing
      /\ k > 0 => \E n \in DOMAIN log :
                    log[n] = [msg |-> "renamed", arg |-> Basename(SheetPath)]

\* C6: an image-url declaration of an allow-listed property whose file exists
\* and encodes yields a data-URL variable in the asset collection and not in
\* the plain one, a usage in the ledger, and var(name) as the declaration's
\* value in the rewritten file.
C6_AssetRecordedAndRewritten ==
  pc = "done" =>
    \A k \in DOMAIN extractedAssets :
      LET a == extractedAssets[k]
      IN /\ ImageSite(a.filePath, a.line)
         /\ StartsWith(a.value, "url(") /\ a.value[2] = "data:image/"
         /\ EntriesAt(extractedVariables, a.filePath, a.line) = {}
         /\ UsagesAt(a.filePath, a.line) # {}
         /\ disk[a.filePath][a.line] = VarRef(a.variableName)

\* C7: the name generated by default embeds a token derived from the value --
\* the stripped text of a plain value, the gradient function name and the
\* colours of a gradient -- and the declaration is rewritten to that name.
C7_NameEmbedsValueToken ==
  \A k \in DOMAIN extractedVariables :
    LET e == extractedVariables[k]
    IN e.property = Decl(e.filePath, e.line).prop =>
         /\ Embeds(e.variableName, ValueToken(e.value))
         /\ pc = "done" => disk[e.filePath][e.line] = VarRef(e.variableName)

\* C8: with no prefix handed to the constructor the prefix is var: every
\* generated name starts with --var-.
C8_DefaultPrefixIsVar ==
  ~input.prefix.given =>
    \A k \in DOMAIN AllEntries :
      SubSeq(AllEntries[k].variableName, 1, 2) = <<"--", "var">>

\* C9: a declaration of allow-listed property P in a class rule, in a file
\* whose parent folder is F, under prefix X, is rewritten to var(--X-F-P) and
\* the variable sheet defines --X-F-P.
C9_NameIsPrefixFolderProperty ==
  \A k \in DOMAIN extractedVariables :
    LET e == extractedVariables[k]
        d == Decl(e.filePath, e.line)
        name == <<"--", options.prefix, FolderName(tree[e.filePath])>> \o d.prop
    IN (/\ e.property = d.prop
        /\ ClassName(d.parents) # ""
        /\ FolderName(tree[e.filePath]) # ""
        /\ options.prefix # "") =>
         /\ e.variableName = name
         /\ pc = "done" => /\ disk[e.filePath][e.line] = VarRef(name)
                           /\ Defs(SheetLines, name) # {}

\* the declaration values a stylesheet was found with
Original(f) == [i \in DOMAIN tree[f].decls |-> tree[f].decls[i].value]

\* C10: when the k-th file fails, extract() rejects there and then: the files
\* before it keep the content they were rewritten to, the files after it are
\* as they were found, and no sheet, map or asset file is written; nothing
\* happens after the rejection.
C10_FailureStopsRun ==
  [][/\ pc # "rejected"
     /\ pc' = "rejected" =>
          /\ processedFiles' = processedFiles
          /\ \A j \in DOMAIN files :
               /\ j <= processedFiles => disk'[files[j]] = disk[files[j]]
               /\ j > processedFiles + 1 => disk'[files[j]] = Original(files[j])
          /\ written' = <<>>]_vars

\* the second file failed after the first was rewritten
C10_Witness ==
  /\ pc = "rejected"
  /\ processedFiles = 1
  /\ Len(files) = 2
  /\ disk[files[1]] # Original(files[1])
  /\ Len(extractedVariables) > 0

\* C11: when the plain collection is empty once every file is processed,
\* generateVariablesFile writes nothing and prints its warning, and extract()
\* goes on to its end: the only file it may still write is the asset sheet.
C11_EmptySkipsSheet ==
  [][/\ (pc = "files" /\ processedFiles = Len(files)
                       /\ Len(extractedVariables) = 0) =>
          /\ pc' \in {"assets", "done"}
          /\ written' = written
          /\ log' = Append(log, [msg |-> "no-variables", arg |-> <<>>])
     /\ (pc = "assets" /\ Len(extractedVariables) = 0) =>
          /\ pc' = "done"
          /\ \A n \in DOMAIN written' :
               written'[n].path = AssetsFilePath(options)]_vars

\* a run over files that yield assets but no plain variable has completed
C11_Witness ==
  /\ pc = "done"
  /\ Len(files) > 0
  /\ Len(extractedVariables) = 0
  /\ Len(extractedAssets) > 0
  /\ \E n \in DOMAIN log : log[n].msg = "no-variables"
  /\ Len(written) = 1

\* the files parseFile has been through
ProcessedSet == {files[j] : j \in 1..processedFiles}

\* C12: unless the run was aborted, once parseFile is through a file every
\* declaration of it for which the loop recorded a plain variable reads
\* var(name) on disk: no recorded declaration is left with its literal.
C12_RecordedMeansWritten ==
  pc # "rejected" =>
    \A k \in DOMAIN extractedVariables :
      LET e == extractedVariables[k]
      IN (/\ e.filePath \in ProcessedSet
          /\ e.property = Decl(e.filePath, e.line).prop) =>
           disk[e.filePath][e.line] = VarRef(e.variableName)

\* the image of an image-url declaration is not on disk, or cannot be encoded
FailingImage(f, i) ==
  LET imgPath == ResolveImage(tree[f], IsImageUrl(Decl(f, i).value).v)
  IN ~ImageExists(imgPath) \/ ImageUnreadable(imgPath)

\* C13: once parseFile is through a file, an allow-listed image-url
\* declaration of it whose image is missing or fails to encode has drawn a
\* warning, keeps its value, has no entry in either collection and no usage in
\* the ledger, and the plain declarations after it were processed.
C13_ImageFailureSkipped ==
  \A s \in Sites :
    (/\ s[1] \in ProcessedSet
     /\ ImageSite(s[1], s[2])
     /\ FailingImage(s[1], s[2])) =>
      /\ \E n \in DOMAIN log :
           log[n] = [msg |-> "image-error", arg |-> Decl(s[1], s[2]).value]
      /\ disk[s[1]][s[2]] = Decl(s[1], s[2]).value
      /\ EntriesAt(extractedAssets, s[1], s[2]) = {}
      /\ EntriesAt(extractedVariables, s[1], s[2]) = {}
      /\ UsagesAt(s[1], s[2]) = {}
      /\ \A j \in DOMAIN tree[s[1]].decls :
           (j > s[2] /\ PlainSite(s[1], j)) =>
             EntriesAt(extractedVariables, s[1], j) # {}

\* the declaration context the generator was called with for a plain entry:
\* none for a $-definition, the declaration for an entry of the loop
EntryCtx(e) ==
  IF e.property = Decl(e.filePath, e.line).prop
    THEN DeclCtx(tree[e.filePath], Decl(e.filePath, e.line))
    ELSE None

\* the names of the plain entries before the k-th
NamesBefore(k) == {extractedVariables[j].variableName : j \in 1..(k - 1)}

\* C14: with the default generator no two plain entries, $-definitions
\* included, ever share a name: an entry whose base name was free has it, and
\* an entry whose base name was taken has base-n for the smallest n >= 1 with
\* base-n free, whatever entry took the base.
C14_PlainNamesUnique ==
  \A k \in DOMAIN extractedVariables :
    LET e == extractedVariables[k]
        base == BaseVariableName(options, e.property, EntryCtx(e))
    IN /\ e.variableName \notin NamesBefore(k)
       /\ \/ e.variableName = base /\ base \notin NamesBefore(k)
          \/ \E n \in 1..Len(extractedVariables) :
               /\ e.variableName = base \o <<NumStr(n)>>
               /\ base \in NamesBefore(k)
               /\ \A m \in 1..(n - 1) : base \o <<NumStr(m)>> \in NamesBefore(k)

\* a third entry was named base-2 after a $-definition and a declaration of
\* other values had taken base and base-1
C14_Witness ==
  /\ pc = "done"
  /\ \E k \in DOMAIN extractedVariables :
       LET e == extractedVariables[k]
           base == BaseVariableName(options, e.property, EntryCtx(e))
       IN /\ e.variableName = base \o <<"2">>
          /\ \E j \in 1..(k - 1) :
               /\ extractedVariables[j].variableName = base
               /\ extractedVariables[j].value # e.value
               /\ EntryCtx(extractedVariables[j]) = None

\* C15: every report of the ledger counts its usages, all its usages have the
\* report's (property, value) key, no other report has that key, and its name
\* is the name of the variable recorded first for the key.
C15_LedgerConsistent ==
  \A r \in DOMAIN variableMap :
    LET report == variableMap[r].val
        key == variableMap[r].key
        first == report.usages[1]
    IN /\ report.usageCount = Len(report.usages)
       /\ report.usageCount >= 1
       /\ \A u \in DOMAIN report.usages :
            <<report.usages[u].property, report.usages[u].value>> = key
       /\ \A q \in DOMAIN variableMap : variableMap[q].key = key => q = r
       /\ \E k \in DOMAIN AllEntries :
            /\ AllEntries[k].filePath = first.filePath
            /\ AllEntries[k].line = first.line
            /\ UsageKey(AllEntries[k]) = key
            /\ AllEntries[k].variableName = report.variableName

\* a report holds two usages whose variables were given different names
C15_Witness ==
  \E r \in DOMAIN variableMap :
    /\ variableMap[r].val.usageCount = 2
    /\ \E a, b \in DOMAIN AllEntries :
         /\ UsageKey(AllEntries[a]) = variableMap[r].key
         /\ UsageKey(AllEntries[b]) = variableMap[r].key
         /\ AllEntries[a].variableName # AllEntries[b].variableName

\* the plain entries named name
Named(name) ==
  {k \in DOMAIN extractedVariables : extractedVariables[k].variableName = name}

\* C16: whatever the generator, the plain entries that share a name, from
\* whatever files and folders, yield exactly one definition line for it in
\* the variable sheet, carrying the value of the last of them.
C16_OneDefinitionPerName ==
  SheetWritten =>
    \A k \in DOMAIN extractedVariables :
      LET name == extractedVariables[k].variableName
          last == CHOOSE a \in Named(name) : \A b \in Named(name) : b <= a
      IN /\ Cardinality(Defs(SheetLines, name)) = 1
         /\ \A n \in Defs(SheetLines, name) :
              SheetLines[n].value = extractedVariables[last].value

SigilSite(f, i) == AllowListed(f, i) /\ Includes(Decl(f, i).value, "$")

\* C17: an allow-listed declaration whose value holds the $ sigil has no entry
\* in either collection and no usage in the ledger, keeps its value in the
\* file unless the run was aborted, and the plain declarations after it in a
\* processed file were processed (up to a transparent one, which ends the
\* file).
C17_SigilLeftAlone ==
  \A s \in Sites :
    SigilSite(s[1], s[2]) =>
      /\ EntriesAt(extractedVariables, s[1], s[2]) = {}
      /\ EntriesAt(extractedAssets, s[1], s[2]) = {}
      /\ UsagesAt(s[1], s[2]) = {}
      /\ pc # "rejected" => disk[s[1]][s[2]] = Decl(s[1], s[2]).value
      /\ s[1] \in ProcessedSet =>
           \A j \in DOMAIN tree[s[1]].decls :
             (/\ j > s[2]
              /\ PlainSite(s[1], j)
              /\ \A m \in 1..(j - 1) : ~TransparentSite(s[1], m)) =>
               EntriesAt(extractedVariables, s[1], j) # {}

\* a run has completed over a file in which a plain declaration follows one
\* holding the sigil, and the file was rewritten
C17_Witness ==
  /\ pc = "done"
  /\ \E s \in Sites :
       /\ SigilSite(s[1], s[2])
       /\ s[2] + 1 \in DOMAIN tree[s[1]].decls
       /\ PlainSite(s[1], s[2] + 1)
       /\ StartsWith(disk[s[1]][s[2] + 1], "var(")

\* the positions of a selector where a class name stands
ClassAt(selector) ==
  {c \in DOMAIN selector : c > 1 /\ selector[c - 1] = "." /\ IsAlnum(selector[c])}

\* the enclosing rules of a declaration whose selector contains a class
ClassRules(parents) ==
  {j \in DOMAIN parents : parents[j].type = "rule" /\ ClassAt(parents[j].selector) # {}}

\* the base name as the segments prefix, parent folder, class and property
\* or alias, each left out when there is none
SegmentsBase(f, i) ==
  LET d == Decl(f, i)
      dir == tree[f].dir
      near == CHOOSE j \in ClassRules(d.parents) :
                \A m \in ClassRules(d.parents) : j <= m
      sel == d.parents[near].selector
      first == CHOOSE c \in ClassAt(sel) : \A m \in ClassAt(sel) : c <= m
  IN <<"--">>
       \o (IF options.prefix = "" THEN <<>> ELSE <<options.prefix>>)
       \o (IF dir = <<>> THEN <<>> ELSE <<dir[Len(dir)]>>)
       \o (IF ClassRules(d.parents) = {} THEN <<>> ELSE <<sel[first]>>)
       \o (IF NameMap(d.prop).given THEN NameMap(d.prop).v ELSE d.prop)

Comments == {n \in DOMAIN SheetLines : SheetLines[n].kind = "comment"}

\* the label of the folder of the k-th plain entry, and the first entry of
\* a folder
EntryFolder(k) == FolderLabel(FolderPath(tree, extractedVariables[k]))
FirstOf(label) ==
  CHOOSE k \in DOMAIN extractedVariables :
    /\ EntryFolder(k) = label
    /\ \A j \in 1..(k - 1) : EntryFolder(j) # label

\* the comment line that opens the section line n stands in
SectionOf(n) == CHOOSE c \in Comments : c < n /\ \A m \in Comments : m < n => m <= c

\* C19: the folder-split flag governs the sections of the variable sheet:
\* when it is set, each folder that has entries has one commented section,
\* the sections stand in the order the folders were first met and hold the
\* definitions of their folder's entries; when it is not set, the sheet has
\* no section comment.
C19_FolderSplitGoverned ==
  SheetWritten =>
    IF options.splitByFolder
      THEN /\ \A k \in DOMAIN extractedVariables :
                \E c \in Comments :
                  /\ SheetLines[c].name = EntryFolder(k)
                  /\ \E n \in Defs(SheetLines, extractedVariables[k].variableName) :
                       SectionOf(n) = c
           /\ \A c, d \in Comments :
                /\ c < d => FirstOf(SheetLines[c].name) < FirstOf(SheetLines[d].name)
           /\ \A n \in DOMAIN SheetLines :
                SheetLines[n].kind = "def" =>
                  \E k \in DOMAIN extractedVariables :
                    /\ extractedVariables[k].variableName = SheetLines[n].name
                    /\ EntryFolder(k) = SheetLines[SectionOf(n)].name
      ELSE Comments = {}

\* the declaration at line i of f reads as a variable reference
RefSite(f, i) ==
  StartsWith(Decl(f, i).value, "var(") \/ StartsWith(Decl(f, i).value, "--")

====
